---------------------------- MODULE Spec2Model ----------------------------
(***************************************************************************)
(* Model of the ingestion-and-retrieval core of rag_chat_quadrant:         *)
(*   backend/pdf_processor.py  chunk_text, process_pdf,                    *)
(*                             search_similar_chunks, calculate_file_hash  *)
(*   backend/rag_service.py    create_rag_prompt, generate_response,       *)
(*                             answer_question                             *)
(*   backend/main.py           upload_document, delete_document            *)
(*                                                                         *)
(* The specifications of the module:                                      *)
(*   SpecChunk  chunk_text run one loop iteration per step                 *)
(*   SpecQuery  search_similar_chunks / answer_question over an index      *)
(*   Spec       upload, background ingestion, deletion and search          *)
(*   SpecScenario  ingestion of one two-page document under config.py      *)
(*   SpecChat   one request to the chat endpoint                           *)
(*   SpecHash   calculate_file_hash on pairs of files                      *)
(*   SpecSnap   chunk_text on texts with every sentence-ending mark        *)
(*   SpecLive   SpecScenario with the steps of the run weakly fair         *)
(***************************************************************************)
EXTENDS Integers, Sequences, FiniteSets, TLC

(***************************************************************************)
(* Bounds of the model.                                                    *)
(***************************************************************************)
MaxLen == 7
MaxSize == 6
MaxOverlap == 2
MaxIter == 8
MaxPoints == 3
MaxTopK == 2
MaxChatPoints == 2
MaxUploads == 2
BreakStep == 100
MaxBreaks == 2
MaxBytes == 2
BlockBytes == 1
MaxSnapLen == 5
MaxSnapSize == 4
MaxSnapOverlap == 1

(***************************************************************************)
(* Program constants (backend/config.py).                                  *)
(***************************************************************************)
CHUNK_SIZE == 1000
CHUNK_OVERLAP == 200
DEFAULT_TOP_K == 5
MAX_TOP_K == 20

(***************************************************************************)
(* Text is a sequence of one-character strings.  Python positions are      *)
(* 0-based: Python text[i] is text[i + 1] here.                            *)
(***************************************************************************)
Alphabet == {"a", " ", "."}
Whitespace == {" "}
Punctuation == << <<".", " ">>, <<"!", " ">>, <<"?", " ">> >>

Min(a, b) == IF a < b THEN a ELSE b
Max(a, b) == IF a > b THEN a ELSE b

\* All sequences over S of length 0..n.
SeqsUpTo(S, n) == UNION {[1..k -> S] : k \in 0..n}

\* Python's adjustment of a slice index i for a sequence of length n:
\* a negative index counts from the end, then both are clamped to [0, n].
PyIndex(i, n) == IF i < 0 THEN Max(i + n, 0) ELSE Min(i, n)

\* Python text[s:e].
Slice(text, s, e) ==
    LET lo == PyIndex(s, Len(text))
        hi == PyIndex(e, Len(text))
    IN  IF lo >= hi THEN << >> ELSE SubSeq(text, lo + 1, hi)

\* Python text.rfind(sub, s, e): the highest position p with
\* lo <= p, p + len(sub) <= hi and text[p:p+len(sub)] == sub, or -1.
RFind(text, sub, s, e) ==
    LET lo == PyIndex(s, Len(text))
        hi == PyIndex(e, Len(text))
        hits == {p \in lo..(hi - Len(sub)) :
                    SubSeq(text, p + 1, p + Len(sub)) = sub}
    IN  IF hits = {} THEN -1 ELSE CHOOSE p \in hits : \A q \in hits : q <= p

\* Python text.strip().
RECURSIVE LStrip(_)
LStrip(text) ==
    IF text # << >> /\ Head(text) \in Whitespace THEN LStrip(Tail(text)) ELSE text

RECURSIVE RStrip(_)
RStrip(text) ==
    IF text # << >> /\ text[Len(text)] \in Whitespace
    THEN RStrip(SubSeq(text, 1, Len(text) - 1))
    ELSE text

\* A chunk taken as it is cut.
NoStrip(text) == text

Strip(text) == RStrip(LStrip(text))

\* An argument that is used as it was passed.
KeepArgument(x, d) == x

\* Python `x or d` on an int argument (None and 0 are both falsy).
OrDefault(x, d) == IF x = 0 THEN d ELSE x

\* A search that takes the last mark of any kind.
RECURSIVE SnapFromLatest(_, _, _, _)
SnapFromLatest(text, start, end, k) ==
    IF k > Len(Punctuation) THEN end
    ELSE LET last_punct == RFind(text, Punctuation[k], start, end)
             rest == SnapFromLatest(text, start, end, k + 1)
         IN  IF last_punct = -1 THEN rest
             ELSE IF rest = end THEN last_punct + 1
             ELSE Max(last_punct + 1, rest)

(***************************************************************************)
(* chunk_text, lines 96-103: the end of the window that starts at start.   *)
(* The for loop over the punctuation list breaks at the first punctuation  *)
(* that occurs in the window.                                              *)
(***************************************************************************)
RECURSIVE SnapFrom(_, _, _, _)
SnapFrom(text, start, end, k) ==
    IF k > Len(Punctuation) THEN end
    ELSE LET last_punct == RFind(text, Punctuation[k], start, end)
         IN  IF last_punct # -1 THEN last_punct + 1
             ELSE SnapFrom(text, start, end, k + 1)

\* A searched range that does not stop at the window's end.
WindowEndUnbounded(text, start, chunk_size) ==
    LET end == start + chunk_size
    IN  IF end < Len(text)
        THEN LET p == RFind(text, Punctuation[1], start, Len(text))
             IN  IF p # -1 THEN p + 1 ELSE end
        ELSE end

WindowEnd(text, start, chunk_size) ==
    LET end == start + chunk_size
    IN  IF end < Len(text) THEN SnapFrom(text, start, end, 1) ELSE end

\* chunk_text, line 87, with the comparison made strict.
FitsInOneChunkStrict(text, chunk_size) == Len(text) < chunk_size

\* chunk_text, line 87.
FitsInOneChunk(text, chunk_size) == Len(text) <= chunk_size

\* chunk_text, line 110.
NextStart(text, end, overlap) ==
    IF end < Len(text) THEN end - overlap ELSE Len(text)

VARIABLES
    c_text,      \* chunk_text: the text argument
    c_size,      \* chunk_text: chunk_size after line 84
    c_overlap,   \* chunk_text: overlap after line 85
    c_arg,       \* chunk_text: the (chunk_size, overlap) arguments as passed
    c_start,     \* chunk_text: start
    c_chunks,    \* chunk_text: chunks (the returned list once c_pc = "done")
    c_windows,   \* history: the window [start, end) of each emitted chunk
    c_seen,      \* history: the values of start at the loop head so far
    c_iter,      \* history: number of loop iterations executed
    c_pc         \* chunk_text: "entry", "loop" or "done"

chunkVars == <<c_text, c_size, c_overlap, c_arg, c_start, c_chunks,
               c_windows, c_seen, c_iter, c_pc>>

VARIABLES
    index,       \* the Qdrant collection: a set of points
    q_out        \* the last call of SpecQuery, with its arguments and result

queryVars == <<index, q_out>>

VARIABLES
    documents,   \* table documents: id -> row
    chunk_rows,  \* table document_chunks: a set of rows
    up,          \* upload_document: the state of each request in flight
    run,         \* process_pdf: the state of each document's background task
    del,         \* delete_document: the state of the request in flight
    next_id,     \* number of file ids drawn so far, plus one
    deleted      \* history: deleted document -> the vector keys its delete
                 \* read, where its ingestion run stood and whether it had
                 \* ended by then

storeVars == <<documents, chunk_rows, up, run, del, next_id, deleted>>

VARIABLES
    hashing      \* calculate_file_hash: the state of each call

hashVars == <<hashing>>

vars == <<chunkVars, queryVars, storeVars, hashVars>>

\* The variables of the other specifications, left at rest.
ChunkIdle ==
    /\ c_text = << >>
    /\ c_arg = <<0, 0>>
    /\ c_size = 0
    /\ c_overlap = 0
    /\ c_start = 0
    /\ c_chunks = << >>
    /\ c_windows = << >>
    /\ c_seen = {}
    /\ c_iter = 0
    /\ c_pc = "idle"

QueryIdle ==
    /\ index = {}
    /\ q_out = [op |-> "none"]

StoreIdle ==
    /\ documents = << >>
    /\ chunk_rows = {}
    /\ up = << >>
    /\ run = << >>
    /\ del = [pc |-> "idle"]
    /\ next_id = 1
    /\ deleted = << >>

HashIdle == hashing = << >>

(***************************************************************************)
(* SpecChunk: chunk_text on every text and configuration within bounds.    *)
(***************************************************************************)
InitChunk ==
    /\ c_text \in SeqsUpTo(Alphabet, MaxLen)
    /\ c_arg \in (0..MaxSize) \X (0..MaxOverlap)
    /\ c_size = OrDefault(c_arg[1], CHUNK_SIZE)
    /\ c_overlap = OrDefault(c_arg[2], CHUNK_OVERLAP)
    /\ c_start = 0
    /\ c_chunks = << >>
    /\ c_windows = << >>
    /\ c_seen = {}
    /\ c_iter = 0
    /\ c_pc = "entry"
    /\ QueryIdle
    /\ StoreIdle
    /\ HashIdle

\* Lines 87-88: a text that fits in one chunk is returned as it is.
ChunkShort ==
    /\ c_pc = "entry"
    /\ FitsInOneChunk(c_text, c_size)
    /\ c_chunks' = <<c_text>>
    /\ c_windows' = << <<0, Len(c_text)>> >>
    /\ c_pc' = "done"
    /\ UNCHANGED <<c_text, c_size, c_overlap, c_arg, c_start, c_seen, c_iter>>
    /\ UNCHANGED <<queryVars, storeVars, hashVars>>

\* Lines 90-91.
ChunkEnter ==
    /\ c_pc = "entry"
    /\ ~FitsInOneChunk(c_text, c_size)
    /\ c_pc' = "loop"
    /\ UNCHANGED <<c_text, c_size, c_overlap, c_arg, c_start, c_chunks,
                   c_windows, c_seen, c_iter>>
    /\ UNCHANGED <<queryVars, storeVars, hashVars>>

\* Lines 93-113: one iteration of the while loop.
ChunkIterate ==
    /\ c_pc = "loop"
    /\ c_iter < MaxIter
    /\ IF c_start < Len(c_text)
       THEN LET end == WindowEnd(c_text, c_start, c_size)
                chunk == Strip(Slice(c_text, c_start, end))
                next == NextStart(c_text, end, c_overlap)
                window == <<PyIndex(c_start, Len(c_text)),
                            PyIndex(end, Len(c_text))>>
            IN  /\ c_chunks' = IF chunk # << >> THEN Append(c_chunks, chunk)
                                                ELSE c_chunks
                /\ c_windows' = IF chunk # << >> THEN Append(c_windows, window)
                                                 ELSE c_windows
                /\ c_start' = next
                /\ c_seen' = c_seen \cup {c_start}
                /\ c_iter' = c_iter + 1
                /\ c_pc' = IF next >= Len(c_text) THEN "done" ELSE "loop"
       ELSE /\ c_pc' = "done"
            /\ UNCHANGED <<c_start, c_chunks, c_windows, c_seen, c_iter>>
    /\ UNCHANGED <<c_text, c_size, c_overlap, c_arg>>
    /\ UNCHANGED <<queryVars, storeVars, hashVars>>

NextChunk == ChunkShort \/ ChunkEnter \/ ChunkIterate

SpecChunk == InitChunk /\ [][NextChunk]_vars

(***************************************************************************)
(* SpecSnap: chunk_text on short texts over the three sentence-ending      *)
(* marks of line 99, with explicit chunk_size and overlap.                 *)
(***************************************************************************)
SnapAlphabet == {"a", " ", ".", "!", "?"}

InitSnap ==
    /\ c_text \in SeqsUpTo(SnapAlphabet, MaxSnapLen)
    /\ c_arg \in (1..MaxSnapSize) \X (1..MaxSnapOverlap)
    /\ c_size = OrDefault(c_arg[1], CHUNK_SIZE)
    /\ c_overlap = OrDefault(c_arg[2], CHUNK_OVERLAP)
    /\ c_start = 0
    /\ c_chunks = << >>
    /\ c_windows = << >>
    /\ c_seen = {}
    /\ c_iter = 0
    /\ c_pc = "entry"
    /\ QueryIdle
    /\ StoreIdle
    /\ HashIdle

SpecSnap == InitSnap /\ [][NextChunk]_vars

(***************************************************************************)
(* Retrieval: search_similar_chunks (pdf_processor.py) and the answer      *)
(* composer (rag_service.py).                                              *)
(*                                                                         *)
(* A point is [id, vector, document_id, page_number, chunk_index, content,  *)
(* filename].  The embedding model and the similarity metric are external: *)
(* a vector is a small integer and the score of a point for a query vector *)
(* grows as the two get closer.  Calls of external services take a time    *)
(* drawn from Durations.                                                   *)
(***************************************************************************)
DocIds == 1..3
Vectors == 1..2
Queries == {"q"}
GeneratedTexts == {"generated answer"}
Durations == {1, 2}

\* main.py line 202: the stored name of a file starts with its file id.
FilenameOf(document_id) == <<document_id, "pdf">>

DeclineMessage == "I couldn't find any relevant information"
GenerationError == "I encountered an error while generating the response"
PipelineError == "I encountered an error while processing your question"

Abs(x) == IF x < 0 THEN -x ELSE x

Score(qv, point) == 0 - Abs(qv - point.vector)

\* A filter that is not applied at all.
MatchesFilterIgnored(point, document_filter) == TRUE

\* Lines 225-234: `if document_filter:` skips None and the empty list;
\* otherwise Filter(must=[...]) holds one condition per listed id, and
\* Qdrant's `must` requires EVERY condition to match the point.
MatchesFilter(point, document_filter) ==
    \/ document_filter = {}
    \/ \A doc_id \in document_filter : point.document_id = doc_id

\* res is a ranking of the k best of candidates: distinct points, in
\* non-increasing score order, none left out that beats one kept.  Ties
\* are broken in any order.
IsTopK(res, candidates, qv, k) ==
    /\ Len(res) = Min(k, Cardinality(candidates))
    /\ \A i \in 1..Len(res) : res[i] \in candidates
    /\ \A i, j \in 1..Len(res) : i < j =>
           /\ res[i] # res[j]
           /\ Score(qv, res[i]) >= Score(qv, res[j])
    /\ \A p \in candidates :
           (\A i \in 1..Len(res) : res[i] # p) =>
               \A i \in 1..Len(res) : Score(qv, p) <= Score(qv, res[i])

\* Lines 236-258: the possible return values of search_similar_chunks
\* when no call raises.
SearchSimilarChunks(idx, qv, top_k, document_filter) ==
    LET candidates == {p \in idx : MatchesFilter(p, document_filter)}
    IN  {res \in SeqsUpTo(candidates, Min(top_k, Cardinality(candidates))) :
            IsTopK(res, candidates, qv, top_k)}

\* A prompt is a sequence of segments: fixed text, or a formatted value
\* ("document" is 'Document: <value>', "page" is 'Page: <value>',
\* "question" is 'User Question: <value>', "content" is the value).
Seg(kind, value) == [kind |-> kind, value |-> value]

\* A block that leaves the page out.
ContextBlockNoPage(chunk) ==
    <<Seg("document", chunk.point.filename),
      Seg("content", chunk.point.content)>>

\* rag_service.py line 29.
ContextBlock(chunk) ==
    <<Seg("document", chunk.point.filename),
      Seg("page", chunk.point.page_number),
      Seg("content", chunk.point.content)>>

\* rag_service.py lines 26-31: the blocks from the i-th on, joined.
RECURSIVE ContextText(_, _)
ContextText(context_chunks, i) ==
    IF i > Len(context_chunks) THEN << >>
    ELSE (IF i > 1 THEN <<Seg("text", "\n\n")>> ELSE << >>)
             \o ContextBlock(context_chunks[i])
             \o ContextText(context_chunks, i + 1)

\* rag_service.py lines 23-49.  The prompt is the decline message itself
\* when there is no context in strict mode, and otherwise the context
\* blocks in order, followed by the query.
create_rag_prompt(query, context_chunks, only_answer_if_sources) ==
    IF context_chunks = << >> /\ only_answer_if_sources
    THEN <<Seg("text", DeclineMessage)>>
    ELSE <<Seg("text", "instructions")>>
             \o ContextText(context_chunks, 1)
             \o <<Seg("question", query), Seg("text", "closing")>>

\* Sources listed last match first.
FormatSourcesReversed(context_chunks) ==
    [i \in 1..Len(context_chunks) |->
        LET chunk == context_chunks[Len(context_chunks) + 1 - i]
        IN  [document_id |-> chunk.point.document_id,
             document_name |-> chunk.point.filename,
             page_number |-> chunk.point.page_number,
             chunk_index |-> chunk.point.chunk_index,
             content |-> chunk.point.content,
             relevance_score |-> chunk.score]]

\* rag_service.py lines 64-74.
FormatSources(context_chunks) ==
    [i \in 1..Len(context_chunks) |->
        [document_id |-> context_chunks[i].point.document_id,
         document_name |-> context_chunks[i].point.filename,
         page_number |-> context_chunks[i].point.page_number,
         chunk_index |-> context_chunks[i].point.chunk_index,
         content |-> context_chunks[i].point.content,
         relevance_score |-> context_chunks[i].score]]

\* str.split on the texts of the model.
Split(text) ==
    IF text = "generated answer" THEN <<"generated", "answer">> ELSE << >>

\* rag_service.py line 81.
TokensUsed(text) == IF text # "" THEN Len(Split(text)) ELSE 0

\* An error result that keeps the sources of the matches.
GenerationErrorKeepsSources(context_chunks, prompt, elapsed) ==
    [response |-> GenerationError,
     sources |-> FormatSources(context_chunks),
     context_chunks |-> context_chunks,
     response_time_ms |-> elapsed,
     tokens_used |-> 0,
     prompt |-> prompt,
     generated |-> TRUE,
     failure |-> "generation"]

\* rag_service.py lines 84-92.
GenerationErrorResult(context_chunks, prompt, elapsed) ==
    [response |-> GenerationError,
     sources |-> << >>,
     context_chunks |-> << >>,
     response_time_ms |-> elapsed,
     tokens_used |-> 0,
     prompt |-> prompt,
     generated |-> TRUE,
     failure |-> "generation"]

\* rag_service.py lines 109-117.
PipelineErrorResult ==
    [response |-> PipelineError,
     sources |-> << >>,
     context_chunks |-> << >>,
     response_time_ms |-> 0,
     tokens_used |-> 0,
     generated |-> FALSE,
     failure |-> "search"]

\* rag_service.py lines 51-92: the possible results of generate_response.
\* The prompt is always passed to the generation provider (line 59), which
\* returns some text or raises, after some time.  Beside the keys of the
\* returned dict a result records the prompt that was built, whether the
\* provider was called and which call failed.
generate_response(query, context_chunks, only_answer_if_sources) ==
    LET prompt == create_rag_prompt(query, context_chunks,
                                    only_answer_if_sources)
    IN  {[response |-> text,
          sources |-> FormatSources(context_chunks),
          context_chunks |-> context_chunks,
          response_time_ms |-> elapsed,
          tokens_used |-> TokensUsed(text),
          prompt |-> prompt,
          generated |-> TRUE,
          failure |-> "none"] : text \in GeneratedTexts, elapsed \in Durations}
        \cup
        {GenerationErrorResult(context_chunks, prompt, elapsed) :
            elapsed \in Durations}

\* The dicts built at lines 246-256 from the hits.
Hits(res, qv) == [i \in 1..Len(res) |-> [point |-> res[i], score |-> Score(qv, res[i])]]

\* rag_service.py lines 94-117: the possible results of answer_question,
\* each with the matches the search returned (searched is FALSE when the
\* embedding of the query or the search raised) and the time the search
\* took.
answer_question(idx, query, qv, top_k, document_filter, only_answer_if_sources) ==
    {[searched |-> FALSE, search_time |-> t, matches |-> << >>,
      result |-> PipelineErrorResult] : t \in Durations}
    \cup
    UNION {{[searched |-> TRUE, search_time |-> t, matches |-> Hits(res, qv),
             result |-> r] :
              r \in generate_response(query, Hits(res, qv),
                                      only_answer_if_sources),
              t \in Durations} :
           res \in SearchSimilarChunks(idx, qv, top_k, document_filter)}

(***************************************************************************)
(* SpecQuery: one search or one question over every index within bounds.   *)
(***************************************************************************)
\* The content of the n-th point: the points' contents are distinct.
ContentOf(n) == [i \in 1..n |-> "a"]

PointsOf(n) ==
    {[id |-> n, vector |-> v, document_id |-> d, page_number |-> 1,
      chunk_index |-> 0, content |-> ContentOf(n),
      filename |-> FilenameOf(d)] : v \in Vectors, d \in DocIds}

\* Indexes of at most n points, with distinct ids 1..n.
RECURSIVE IndexesUpTo(_)
IndexesUpTo(n) ==
    IF n = 0 THEN {{}}
    ELSE LET smaller == IndexesUpTo(n - 1)
         IN  smaller \cup
             {idx \cup {p} : idx \in {i \in smaller : Cardinality(i) = n - 1},
                             p \in PointsOf(n)}

InitQuery ==
    /\ index \in IndexesUpTo(MaxPoints)
    /\ q_out = [op |-> "none"]
    /\ ChunkIdle
    /\ StoreIdle
    /\ HashIdle

\* A call of search_similar_chunks that returns.
Search ==
    /\ q_out.op = "none"
    /\ \E qv \in Vectors, top_k \in 1..MaxTopK, document_filter \in SUBSET DocIds :
         \E res \in SearchSimilarChunks(index, qv, top_k, document_filter) :
            q_out' = [op |-> "search", qv |-> qv, top_k |-> top_k,
                      document_filter |-> document_filter, matches |-> res]
    /\ UNCHANGED <<index, chunkVars, storeVars, hashVars>>

\* A call of answer_question.
AnswerQuestion ==
    /\ q_out.op = "none"
    /\ \E query \in Queries, qv \in Vectors, top_k \in 1..MaxTopK,
          document_filter \in SUBSET DocIds, strict \in BOOLEAN :
         \E a \in answer_question(index, query, qv, top_k, document_filter, strict) :
            q_out' = [op |-> "answer", query |-> query, top_k |-> top_k,
                      document_filter |-> document_filter,
                      only_answer_if_sources |-> strict,
                      searched |-> a.searched,
                      search_time |-> a.search_time,
                      matches |-> a.matches,
                      result |-> a.result]
    /\ UNCHANGED <<index, chunkVars, storeVars, hashVars>>

NextQuery == Search \/ AnswerQuestion

SpecQuery == InitQuery /\ [][NextQuery]_vars

(***************************************************************************)
(* SpecChat: one request to POST /api/chat (main.py) over every index of   *)
(* at most MaxChatPoints points.                                           *)
(***************************************************************************)
\* schemas.py line 10: top_k is any int; no range is declared.
TopKRequests == {0} \cup (1..MaxTopK) \cup {MAX_TOP_K + 1}

InitChat ==
    /\ index \in IndexesUpTo(MaxChatPoints)
    /\ q_out = [op |-> "none"]
    /\ ChunkIdle
    /\ StoreIdle
    /\ HashIdle

\* main.py lines 310-375.  The request body was parsed into ChatRequest;
\* an unknown session is answered 404; otherwise the question is answered
\* and the two messages and the metric are committed, or the commit raises
\* and the request is answered 500.
Chat ==
    /\ q_out.op = "none"
    /\ \E session_found \in BOOLEAN, message \in Queries, qv \in Vectors,
          top_k \in TopKRequests, document_filter \in SUBSET DocIds,
          strict \in BOOLEAN :
         IF ~session_found
         THEN q_out' = [op |-> "chat", status |-> 404,
                        request_top_k |-> top_k, called |-> FALSE,
                        generated |-> FALSE, saved |-> << >>]
         ELSE LET limit == OrDefault(top_k, DEFAULT_TOP_K)
              IN  \E a \in answer_question(index, message, qv, limit,
                                           document_filter, strict),
                     commit_ok \in BOOLEAN :
                    q_out' = [op |-> "chat",
                              status |-> IF commit_ok THEN 200 ELSE 500,
                              request_top_k |-> top_k,
                              called |-> TRUE,
                              limit |-> limit,
                              generated |-> a.result.generated,
                              matches |-> a.matches,
                              result |-> a.result,
                              saved |->
                                IF commit_ok
                                THEN <<[message_type |-> "user",
                                        content |-> message],
                                       [message_type |-> "assistant",
                                        content |-> a.result.response,
                                        sources |-> a.result.sources],
                                       [retrieved_chunks |->
                                            Len(a.result.context_chunks),
                                        top_k |-> limit]>>
                                ELSE << >>]
    /\ UNCHANGED <<index, chunkVars, storeVars, hashVars>>

NextChat == Chat

SpecChat == InitChat /\ [][NextChat]_vars

(***************************************************************************)
(* The store: upload_document and delete_document (main.py) and the        *)
(* background task process_pdf (pdf_processor.py), over the relational     *)
(* tables and the index.  Requests and background tasks interleave at      *)
(* their database and index calls, as they do when more than one worker    *)
(* serves the same database.                                               *)
(***************************************************************************)
\* A file is its content: the text of its pages, as pypdf extracts it.
Files == {<< <<"a">> >>, << <<"a", ".">>, <<" ">>, <<" ", "a">> >>}
Reqs == {1, 2}
FileIds == 1..MaxUploads

\* pdf_processor.py lines 322-328.  SHA-256 is taken to be free of
\* collisions on the files of the model: the digest names the content.
calculate_file_hash(file) == <<"sha256", file>>

\* pdf_processor.py lines 62-80: the pages of a file that hold text, with
\* their 1-based page numbers; a page of whitespace only is dropped.
RawPages(file) == file

RECURSIVE PagesFrom(_, _)
PagesFrom(raw, n) ==
    IF n > Len(raw) THEN << >>
    ELSE IF Strip(raw[n]) # << >>
         THEN <<[page_number |-> n, content |-> Strip(raw[n])]>>
                  \o PagesFrom(raw, n + 1)
         ELSE PagesFrom(raw, n + 1)

extract_text_from_pdf(file) == PagesFrom(RawPages(file), 1)

\* pdf_processor.py lines 82-115 as a function: the loop of SpecChunk run
\* to its end (cut off after MaxIter iterations).
RECURSIVE ChunkLoop(_, _, _, _, _, _)
ChunkLoop(text, chunk_size, overlap, start, chunks, fuel) ==
    IF start >= Len(text) \/ fuel = 0 THEN chunks
    ELSE LET end == WindowEnd(text, start, chunk_size)
             chunk == Strip(Slice(text, start, end))
         IN  ChunkLoop(text, chunk_size, overlap,
                       NextStart(text, end, overlap),
                       IF chunk # << >> THEN Append(chunks, chunk) ELSE chunks,
                       fuel - 1)

chunk_text(text, chunk_size, overlap) ==
    LET size == OrDefault(chunk_size, CHUNK_SIZE)
        ov == OrDefault(overlap, CHUNK_OVERLAP)
    IN  IF FitsInOneChunk(text, size) THEN <<text>>
        ELSE ChunkLoop(text, size, ov, 0, << >>, MaxIter)

\* Whether the while loop of lines 93-113 leaves within fuel iterations.
RECURSIVE ChunkLoopReturns(_, _, _, _, _)
ChunkLoopReturns(text, chunk_size, overlap, start, fuel) ==
    IF start >= Len(text) THEN TRUE
    ELSE IF fuel = 0 THEN FALSE
    ELSE ChunkLoopReturns(text, chunk_size, overlap,
                          NextStart(text, WindowEnd(text, start, chunk_size),
                                    overlap),
                          fuel - 1)

\* Whether chunk_text returns (within MaxIter iterations of its loop).
ChunkReturns(text, chunk_size, overlap) ==
    LET size == OrDefault(chunk_size, CHUNK_SIZE)
        ov == OrDefault(overlap, CHUNK_OVERLAP)
    IN  \/ FitsInOneChunk(text, size)
        \/ ChunkLoopReturns(text, size, ov, 0, MaxIter)

\* The embedding model is external; the vector of a text stands for it.
Embedding(text) == IF Len(text) <= 1 THEN 1 ELSE 2

\* Metadata whose ordinal starts again at 0 on every page.
RECURSIVE ChunkMetadataPerPage(_, _, _, _)
ChunkMetadataPerPage(document_id, pages, n, sofar) ==
    IF n > Len(pages) THEN sofar
    ELSE LET page_chunks == chunk_text(pages[n].content, 0, 0)
             new == [i \in 1..Len(page_chunks) |->
                        [chunk_uuid |-> <<document_id, Len(sofar) + i - 1>>,
                         document_id |-> document_id,
                         page_number |-> pages[n].page_number,
                         chunk_index |-> i - 1,
                         content |-> page_chunks[i]]]
         IN  ChunkMetadataPerPage(document_id, pages, n + 1, sofar \o new)

\* pdf_processor.py lines 142-163: chunk_metadata of a document, page by
\* page.  chunk_uuid is a fresh uuid4: the pair (document, ordinal) names it.
RECURSIVE ChunkMetadata(_, _, _, _)
ChunkMetadata(document_id, pages, n, sofar) ==
    IF n > Len(pages) THEN sofar
    ELSE LET page_chunks == chunk_text(pages[n].content, 0, 0)
             new == [i \in 1..Len(page_chunks) |->
                        [chunk_uuid |-> <<document_id, Len(sofar) + i - 1>>,
                         document_id |-> document_id,
                         page_number |-> pages[n].page_number,
                         chunk_index |-> Len(sofar) + i - 1,
                         content |-> page_chunks[i]]]
         IN  ChunkMetadata(document_id, pages, n + 1, sofar \o new)

\* A batch that carries no point.
PointsForNone(metadata) == {}

\* pdf_processor.py lines 169-183.
PointsFor(metadata) ==
    {[id |-> metadata[i].chunk_uuid,
      vector |-> Embedding(metadata[i].content),
      document_id |-> metadata[i].document_id,
      page_number |-> metadata[i].page_number,
      chunk_index |-> metadata[i].chunk_index,
      content |-> metadata[i].content,
      filename |-> FilenameOf(metadata[i].document_id)] :
        i \in 1..Len(metadata)}

\* pdf_processor.py lines 192-200.
RowsFor(metadata) ==
    {[document_id |-> metadata[i].document_id,
      chunk_index |-> metadata[i].chunk_index,
      page_number |-> metadata[i].page_number,
      vector_id |-> metadata[i].chunk_uuid] : i \in 1..Len(metadata)}

\* A lookup that never finds the earlier upload.
FindByHashNever(docs, content_hash) == {}

\* main.py line 212: the documents whose content_hash is the given one.
FindByHash(docs, content_hash) ==
    {d \in DOMAIN docs : docs[d].content_hash = content_hash}

\* models.py lines 40 and 94: deleting a document deletes its chunk rows.
RowsAfterDelete(rows, document_id) ==
    {row \in rows : row.document_id # document_id}

Remove(f, x) == [y \in DOMAIN f \ {x} |-> f[y]]
Put(f, x, v) == [y \in DOMAIN f \cup {x} |-> IF y = x THEN v ELSE f[y]]

\* A handler that puts the document back in the queue.
StatusOnFailureRetry(current) == "pending"

\* pdf_processor.py line 213: the status written by the except block.
StatusOnFailure(current) == "failed"

IdleRequest == [pc |-> "idle"]
NoRun == [pc |-> "none"]

Init ==
    /\ documents = << >>
    /\ chunk_rows = {}
    /\ index = {}
    /\ up = [r \in Reqs |-> IdleRequest]
    /\ run = [d \in FileIds |-> NoRun]
    /\ del = [pc |-> "idle"]
    /\ next_id = 1
    /\ deleted = << >>
    /\ q_out = [op |-> "none"]
    /\ ChunkIdle
    /\ HashIdle

\* main.py lines 199-209: a file that passed the checks of lines 193-197 is
\* saved under a fresh id and hashed.  Requests are anonymous: a request
\* takes the first free worker.
UploadSave(r, file) ==
    /\ up[r].pc = "idle"
    /\ \A q \in Reqs : q < r => up[q].pc # "idle"
    /\ next_id <= MaxUploads
    /\ up' = [up EXCEPT ![r] = [pc |-> "hashed", file |-> file,
                                file_id |-> next_id,
                                file_hash |-> calculate_file_hash(file)]]
    /\ next_id' = next_id + 1
    /\ UNCHANGED <<documents, chunk_rows, index, run, del, deleted>>
    /\ UNCHANGED <<q_out, chunkVars, hashVars>>

\* main.py lines 211-220: the lookup by content hash.
UploadLookup(r) ==
    /\ up[r].pc = "hashed"
    /\ LET existing == FindByHash(documents, up[r].file_hash)
       IN  IF existing # {}
           THEN \E d \in existing :
                   up' = [up EXCEPT ![r] =
                            [pc |-> "done",
                             resp |-> [status |-> "already_exists", id |-> d]]]
           ELSE up' = [up EXCEPT ![r].pc = "checked"]
    /\ UNCHANGED <<documents, chunk_rows, index, run, del, next_id, deleted>>
    /\ UNCHANGED <<q_out, chunkVars, hashVars>>

\* main.py lines 222-251: the insert.  content_hash is UNIQUE (models.py
\* line 33): when a row with the hash was committed since the lookup the
\* commit raises, and the handler answers 500.
UploadCommit(r) ==
    /\ up[r].pc = "checked"
    /\ IF \E d \in DOMAIN documents :
              documents[d].content_hash = up[r].file_hash
       THEN /\ up' = [up EXCEPT ![r] =
                        [pc |-> "done",
                         resp |-> [status |-> "error", id |-> 0]]]
            /\ UNCHANGED <<documents, run>>
       ELSE /\ documents' = Put(documents, up[r].file_id,
                                [content_hash |-> up[r].file_hash,
                                 processing_status |-> "pending",
                                 chunk_count |-> 0,
                                 error_message |-> FALSE])
            /\ run' = [run EXCEPT ![up[r].file_id] =
                         [pc |-> "scheduled", file |-> up[r].file]]
            /\ up' = [up EXCEPT ![r] =
                        [pc |-> "done",
                         resp |-> [status |-> "uploaded",
                                   id |-> up[r].file_id]]]
    /\ UNCHANGED <<chunk_rows, index, del, next_id, deleted>>
    /\ UNCHANGED <<q_out, chunkVars, hashVars>>

\* The response has been sent; the worker takes the next request.
UploadReturn(r) ==
    /\ up[r].pc = "done"
    /\ up' = [up EXCEPT ![r] = IdleRequest]
    /\ UNCHANGED <<documents, chunk_rows, index, run, del, next_id, deleted>>
    /\ UNCHANGED <<q_out, chunkVars, hashVars>>

\* pdf_processor.py lines 130-135.  When the row is gone the ValueError is
\* caught at line 210 with document = None, and line 213 raises.
RunStart(d) ==
    /\ run[d].pc = "scheduled"
    /\ IF d \in DOMAIN documents
       THEN /\ documents' = [documents EXCEPT
                                ![d].processing_status = "processing"]
            /\ run' = [run EXCEPT ![d].pc = "processing"]
       ELSE /\ run' = [run EXCEPT ![d] = [pc |-> "raised"]]
            /\ UNCHANGED documents
    /\ UNCHANGED <<chunk_rows, index, up, del, next_id, deleted>>
    /\ UNCHANGED <<q_out, chunkVars, hashVars>>

\* pdf_processor.py lines 137-163: the run is past line 135 and chunk_text
\* returns for every page of the file.
CanUpsert(d) ==
    /\ run[d].pc = "processing"
    /\ LET pages == extract_text_from_pdf(run[d].file)
       IN  \A n \in 1..Len(pages) : ChunkReturns(pages[n].content, 0, 0)

\* pdf_processor.py lines 137-189: extraction, chunking, embedding and the
\* batched upsert, none of them raising.  The step is reached when
\* chunk_text returns for every page.
RunUpsert(d) ==
    /\ CanUpsert(d)
    /\ LET metadata == ChunkMetadata(d, extract_text_from_pdf(run[d].file),
                                     1, << >>)
       IN  /\ index' = index \cup PointsFor(metadata)
           /\ run' = [run EXCEPT ![d] = [pc |-> "upserted",
                                         file |-> run[d].file,
                                         metadata |-> metadata]]
    /\ UNCHANGED <<documents, chunk_rows, up, del, next_id, deleted>>
    /\ UNCHANGED <<q_out, chunkVars, hashVars>>

\* pdf_processor.py lines 210-216, reached from lines 138-189 (extraction,
\* embedding or upsert raised) or from line 205 (the commit raised for a
\* reason other than the row being gone).  When the document row is gone
\* the commit at line 215 raises in its turn.
RunFail(d) ==
    /\ run[d].pc \in {"processing", "upserted"}
    /\ IF d \in DOMAIN documents
       THEN /\ documents' = [documents EXCEPT
                                ![d].processing_status =
                                    StatusOnFailure(documents[d].processing_status),
                                ![d].error_message = TRUE]
            /\ run' = [run EXCEPT ![d] = [pc |-> "returned",
                                          result |-> FALSE]]
       ELSE /\ run' = [run EXCEPT ![d] = [pc |-> "raised"]]
            /\ UNCHANGED documents
    /\ UNCHANGED <<chunk_rows, index, up, del, next_id, deleted>>
    /\ UNCHANGED <<q_out, chunkVars, hashVars>>

\* pdf_processor.py lines 191-208: the chunk rows and the final status in
\* one commit.  When the document row is gone the commit raises, and so
\* does the one at line 215.
RunCommit(d) ==
    /\ run[d].pc = "upserted"
    /\ IF d \in DOMAIN documents
       THEN /\ chunk_rows' = chunk_rows \cup RowsFor(run[d].metadata)
            /\ documents' = [documents EXCEPT
                                ![d].processing_status = "completed",
                                ![d].chunk_count = Len(run[d].metadata)]
            /\ run' = [run EXCEPT ![d] = [pc |-> "returned",
                                          result |-> TRUE]]
       ELSE /\ run' = [run EXCEPT ![d] = [pc |-> "raised"]]
            /\ UNCHANGED <<documents, chunk_rows>>
    /\ UNCHANGED <<index, up, del, next_id, deleted>>
    /\ UNCHANGED <<q_out, chunkVars, hashVars>>

\* pdf_processor.py lines 128-216, an exception that leaves process_pdf.
\* When the query of line 130 raises, `document` is unbound at line 213 and
\* the handler raises in its turn.  When a later step raises while the
\* database is unreachable, the commit of line 215 raises as well.  Nothing
\* is committed.
RunRaise(d) ==
    /\ run[d].pc \in {"scheduled", "processing", "upserted"}
    /\ run' = [run EXCEPT ![d] = [pc |-> "raised"]]
    /\ UNCHANGED <<documents, chunk_rows, index, up, del, next_id, deleted>>
    /\ UNCHANGED <<q_out, chunkVars, hashVars>>

\* The worker process dies while process_pdf runs (lines 136-205): the
\* open transaction is lost, what was committed or upserted stays.
RunCrash(d) ==
    /\ run[d].pc \in {"processing", "upserted"}
    /\ run' = [run EXCEPT ![d] = [pc |-> "crashed"]]
    /\ UNCHANGED <<documents, chunk_rows, index, up, del, next_id, deleted>>
    /\ UNCHANGED <<q_out, chunkVars, hashVars>>

\* main.py lines 277-283: the document is found (an absent one is answered
\* 404 and changes nothing) and its chunk rows are read.
DeleteStart(d) ==
    /\ del.pc = "idle"
    /\ d \in DOMAIN documents
    /\ LET keys == {row.vector_id :
                       row \in {x \in chunk_rows : x.document_id = d}}
       IN  del' = [pc |-> "deleting", document_id |-> d,
                   keys |-> keys, todo |-> keys,
                   attempted |-> {}, failed |-> {},
                   during |-> run[d].pc,
                   settled |-> run[d].pc \in {"returned", "raised", "crashed"}]
    /\ UNCHANGED <<documents, chunk_rows, index, up, run, next_id, deleted>>
    /\ UNCHANGED <<q_out, chunkVars, hashVars>>

\* A loop that a failed delete call leaves.
TodoAfterAbort(todo, key, ok) == IF ok THEN todo \ {key} ELSE {}

\* main.py lines 284-291: the chunks left to visit after one iteration;
\* the exception of a failed delete call is caught inside the loop.
TodoAfter(todo, key, ok) == todo \ {key}

\* main.py lines 284-291: one iteration of the loop over the chunks.  The
\* delete call removes the point, or raises and is logged.
DeleteVector(ok) ==
    /\ del.pc = "deleting"
    /\ \E key \in del.todo :
          /\ del' = [del EXCEPT
                        !.todo = TodoAfter(del.todo, key, ok),
                        !.attempted = del.attempted \cup {key},
                        !.failed = IF ok THEN del.failed
                                   ELSE del.failed \cup {key}]
          /\ index' = IF ok THEN {p \in index : p.id # key} ELSE index
    /\ UNCHANGED <<documents, chunk_rows, up, run, next_id, deleted>>
    /\ UNCHANGED <<q_out, chunkVars, hashVars>>

\* main.py lines 293-302: the document row is deleted and committed, and
\* the request returns "Document deleted successfully".
DeleteCommit ==
    /\ del.pc = "deleting"
    /\ del.todo = {}
    /\ documents' = Remove(documents, del.document_id)
    /\ chunk_rows' = RowsAfterDelete(chunk_rows, del.document_id)
    /\ deleted' = Put(deleted, del.document_id,
                      [keys |-> del.keys, settled |-> del.settled,
                       during |-> del.during,
                       attempted |-> del.attempted, failed |-> del.failed])
    /\ del' = [pc |-> "idle"]
    /\ UNCHANGED <<index, up, run, next_id>>
    /\ UNCHANGED <<q_out, chunkVars, hashVars>>

Next ==
    \/ \E r \in Reqs, file \in Files : UploadSave(r, file)
    \/ \E r \in Reqs : UploadLookup(r)
    \/ \E r \in Reqs : UploadCommit(r)
    \/ \E r \in Reqs : UploadReturn(r)
    \/ \E d \in FileIds : RunStart(d)
    \/ \E d \in FileIds : RunUpsert(d)
    \/ \E d \in FileIds : RunFail(d)
    \/ \E d \in FileIds : RunCommit(d)
    \/ \E d \in FileIds : RunRaise(d)
    \/ \E d \in FileIds : RunCrash(d)
    \/ \E d \in FileIds : DeleteStart(d)
    \/ \E ok \in BOOLEAN : DeleteVector(ok)
    \/ DeleteCommit

Spec == Init /\ [][Next]_vars

(***************************************************************************)
(* SpecScenario: process_pdf on one stored two-page document, under the    *)
(* chunk size and overlap of config.py.  Page 1 is one and a half chunk    *)
(* sizes long and holds at most MaxBreaks sentence ends (". "), at         *)
(* multiples of BreakStep; page 2 is two overlaps long.                    *)
(***************************************************************************)
Page1Len == CHUNK_SIZE + CHUNK_SIZE \div 2
Page2Len == 2 * CHUNK_OVERLAP

BreakPositions == {k * BreakStep : k \in 0..((Page1Len - 2) \div BreakStep)}
BreakSets == {b \in SUBSET BreakPositions : Cardinality(b) <= MaxBreaks}

\* The page of length n with ". " at the (0-based) positions of breaks.
PageWithBreaks(n, breaks) ==
    [i \in 1..n |-> IF (i - 1) \in breaks THEN "."
                    ELSE IF (i - 2) \in breaks THEN " "
                    ELSE "a"]

ScenarioFiles ==
    {<<PageWithBreaks(Page1Len, b), PageWithBreaks(Page2Len, {})>> :
        b \in BreakSets}

InitScenario ==
    /\ \E file \in ScenarioFiles :
          /\ documents = [d \in {1} |->
                            [content_hash |-> calculate_file_hash(file),
                             processing_status |-> "pending",
                             chunk_count |-> 0,
                             error_message |-> FALSE]]
          /\ run = [d \in FileIds |->
                      IF d = 1 THEN [pc |-> "scheduled", file |-> file]
                      ELSE NoRun]
    /\ chunk_rows = {}
    /\ index = {}
    /\ up = [r \in Reqs |-> IdleRequest]
    /\ del = [pc |-> "idle"]
    /\ next_id = 2
    /\ deleted = << >>
    /\ q_out = [op |-> "none"]
    /\ ChunkIdle
    /\ HashIdle

NextScenario ==
    \/ RunStart(1)
    \/ RunUpsert(1)
    \/ RunFail(1)
    \/ RunCommit(1)
    \/ RunRaise(1)
    \/ RunCrash(1)

SpecScenario == InitScenario /\ [][NextScenario]_vars

(***************************************************************************)
(* SpecLive: the ingestion of SpecScenario when the worker stays up and    *)
(* the database answers.  The background task is run (main.py line 235),   *)
(* and a call that can return does return: the steps of the run are        *)
(* weakly fair.  A call of an external service may still fail (RunFail).   *)
(*                                                                         *)
(* RunUpsert(1) is enabled exactly when CanUpsert(1) holds, and it always  *)
(* changes run: its weak fairness is written out with CanUpsert(1) in the  *)
(* place of ENABLED <<RunUpsert(1)>>_vars.                                 *)
(***************************************************************************)
NextLive ==
    \/ RunStart(1)
    \/ RunUpsert(1)
    \/ RunFail(1)
    \/ RunCommit(1)

LiveFairness ==
    /\ WF_vars(RunStart(1))
    /\ ([]<>~CanUpsert(1) \/ []<><<RunUpsert(1)>>_vars)
    /\ WF_vars(RunCommit(1))

SpecLive == InitScenario /\ [][NextLive]_vars /\ LiveFairness

(***************************************************************************)
(* calculate_file_hash (pdf_processor.py): SHA-256 (FIPS 180-4) as         *)
(* hashlib computes it.  A 32-bit word is the pair <<hi, lo>> of its       *)
(* 16-bit halves; a byte is an integer in 0..255.                          *)
(***************************************************************************)
RECURSIVE Xor16(_, _)
Xor16(a, b) ==
    IF a = 0 THEN b
    ELSE IF b = 0 THEN a
    ELSE 2 * Xor16(a \div 2, b \div 2) + ((a + b) % 2)

RECURSIVE And16(_, _)
And16(a, b) ==
    IF a = 0 \/ b = 0 THEN 0
    ELSE 2 * And16(a \div 2, b \div 2) + ((a % 2) * (b % 2))

WXor(x, y) == <<Xor16(x[1], y[1]), Xor16(x[2], y[2])>>
WAnd(x, y) == <<And16(x[1], y[1]), And16(x[2], y[2])>>
WNot(x) == <<65535 - x[1], 65535 - x[2]>>

\* Addition modulo 2^32.
WAdd(x, y) ==
    LET lo == x[2] + y[2]
    IN  <<(x[1] + y[1] + (lo \div 65536)) % 65536, lo % 65536>>

\* Rotation and shift to the right by n bits, 0 < n < 32.
RotR(x, n) ==
    LET w == IF n >= 16 THEN <<x[2], x[1]>> ELSE x
        k == n % 16
    IN  IF k = 0 THEN w
        ELSE <<(w[1] \div 2^k) + (w[2] % 2^k) * 2^(16 - k),
               (w[2] \div 2^k) + (w[1] % 2^k) * 2^(16 - k)>>

ShR(x, n) ==
    IF n >= 16 THEN <<0, x[1] \div 2^(n - 16)>>
    ELSE <<x[1] \div 2^n, (x[2] \div 2^n) + (x[1] % 2^n) * 2^(16 - n)>>

Ch(x, y, z) == WXor(WAnd(x, y), WAnd(WNot(x), z))
Maj(x, y, z) == WXor(WXor(WAnd(x, y), WAnd(x, z)), WAnd(y, z))
BigSigma0(x) == WXor(WXor(RotR(x, 2), RotR(x, 13)), RotR(x, 22))
BigSigma1(x) == WXor(WXor(RotR(x, 6), RotR(x, 11)), RotR(x, 25))
SmallSigma0(x) == WXor(WXor(RotR(x, 7), RotR(x, 18)), ShR(x, 3))
SmallSigma1(x) == WXor(WXor(RotR(x, 17), RotR(x, 19)), ShR(x, 10))

\* The round constants and the initial hash value.
RoundConstants == <<
    <<17034, 12184>>, <<28983, 17553>>, <<46528, 64463>>, <<59829, 56229>>,
    <<14678, 49755>>, <<23025, 4593>>, <<37439, 33444>>, <<43804, 24277>>,
    <<55303, 43672>>, <<4739, 23297>>, <<9265, 34238>>, <<21772, 32195>>,
    <<29374, 23924>>, <<32990, 45566>>, <<39900, 1703>>, <<49563, 61812>>,
    <<58523, 27073>>, <<61374, 18310>>, <<4033, 40390>>, <<9228, 41420>>,
    <<11753, 11375>>, <<19060, 33962>>, <<23728, 43484>>, <<30457, 35034>>,
    <<38974, 20818>>, <<43057, 50797>>, <<45059, 10184>>, <<48985, 32711>>,
    <<50912, 3059>>, <<54695, 37191>>, <<1738, 25425>>, <<5161, 10599>>,
    <<10167, 2693>>, <<11803, 8504>>, <<19756, 28156>>, <<21304, 3347>>,
    <<25866, 29524>>, <<30314, 2747>>, <<33218, 51502>>, <<37490, 11397>>,
    <<41663, 59553>>, <<43034, 26187>>, <<49739, 35696>>, <<51052, 20899>>,
    <<53650, 59417>>, <<54937, 1572>>, <<62478, 13701>>, <<4202, 41072>>,
    <<6564, 49430>>, <<7735, 27656>>, <<10056, 30540>>, <<13488, 48309>>,
    <<14620, 3251>>, <<20184, 43594>>, <<23452, 51791>>, <<26670, 28659>>,
    <<29839, 33518>>, <<30885, 25455>>, <<33992, 30740>>, <<36039, 520>>,
    <<37054, 65530>>, <<42064, 27883>>, <<48889, 41975>>, <<50801, 30962>> >>

InitialHash == <<
    <<27145, 58983>>, <<47975, 44677>>, <<15470, 62322>>, <<42319, 62778>>,
    <<20750, 21119>>, <<39685, 26764>>, <<8067, 55723>>, <<23520, 52505>> >>

\* The message followed by the bit 1, zeros up to 56 modulo 64 bytes, and
\* the length in bits as 8 bytes (the messages of the model are shorter
\* than 2^13 bytes).
Padded(message) ==
    LET n == Len(message)
    IN  message \o <<128>> \o [i \in 1..((119 - n) % 64) |-> 0]
            \o <<0, 0, 0, 0, 0, 0, (8 * n) \div 256, (8 * n) % 256>>

\* The j-th word (1..16) of the block that starts after offset bytes.
BlockWord(padded, offset, j) ==
    LET at == offset + 4 * (j - 1)
    IN  <<padded[at + 1] * 256 + padded[at + 2],
          padded[at + 3] * 256 + padded[at + 4]>>

RECURSIVE BlockWords(_, _, _)
BlockWords(padded, offset, words) ==
    IF Len(words) = 16 THEN words
    ELSE BlockWords(padded, offset,
                    Append(words, BlockWord(padded, offset, Len(words) + 1)))

RECURSIVE Schedule(_)
Schedule(W) ==
    IF Len(W) = 64 THEN W
    ELSE LET t == Len(W) + 1
         IN  Schedule(Append(W,
                 WAdd(WAdd(SmallSigma1(W[t - 2]), W[t - 7]),
                      WAdd(SmallSigma0(W[t - 15]), W[t - 16]))))

\* One round of the compression function on the working variables s.
Round(s, k, w) ==
    LET T1 == WAdd(WAdd(WAdd(WAdd(s[8], BigSigma1(s[5])),
                             Ch(s[5], s[6], s[7])), k), w)
        T2 == WAdd(BigSigma0(s[1]), Maj(s[1], s[2], s[3]))
    IN  <<WAdd(T1, T2), s[1], s[2], s[3], WAdd(s[4], T1), s[5], s[6], s[7]>>

\* The rounds t..Len(W) on the eight working variables.
RECURSIVE Rounds(_, _, _)
Rounds(s, W, t) ==
    IF t > Len(W) \/ Len(s) # 8 THEN s
    ELSE Rounds(Round(s, RoundConstants[t], W[t]), W, t + 1)

Compress(hash, words) ==
    LET s == Rounds(hash, Schedule(words), 1)
    IN  <<WAdd(hash[1], s[1]), WAdd(hash[2], s[2]), WAdd(hash[3], s[3]),
          WAdd(hash[4], s[4]), WAdd(hash[5], s[5]), WAdd(hash[6], s[6]),
          WAdd(hash[7], s[7]), WAdd(hash[8], s[8])>>

RECURSIVE HashBlocks(_, _, _)
HashBlocks(hash, padded, offset) ==
    IF offset >= Len(padded) THEN hash
    ELSE HashBlocks(Compress(hash, BlockWords(padded, offset, << >>)),
                    padded, offset + 64)

HexDigits ==
    <<"0", "1", "2", "3", "4", "5", "6", "7",
      "8", "9", "a", "b", "c", "d", "e", "f">>

HexHalf(v) ==
    <<HexDigits[(v \div 4096) + 1], HexDigits[((v \div 256) % 16) + 1],
      HexDigits[((v \div 16) % 16) + 1], HexDigits[(v % 16) + 1]>>

RECURSIVE HexWords(_, _)
HexWords(hash, i) ==
    IF i > Len(hash) THEN << >>
    ELSE HexHalf(hash[i][1]) \o HexHalf(hash[i][2]) \o HexWords(hash, i + 1)

\* hashlib.sha256: hexdigest() of an object that absorbed message.
sha256_hexdigest(message) ==
    HexWords(HashBlocks(InitialHash, Padded(message), 0), 1)

(***************************************************************************)
(* SpecHash: two calls of calculate_file_hash, one after the other, on     *)
(* every pair of files of at most MaxBytes bytes.  BlockBytes stands for   *)
(* the 4096 bytes of one read.                                             *)
(***************************************************************************)
Bytes == {0, 255}
Calls == {1, 2}

\* A read that returns nothing after the first block.
ReadFirstBlockOnly(file, pos, size) ==
    IF pos = 0 THEN SubSeq(file, 1, Min(size, Len(file))) ELSE << >>

\* f.read(size) with the file position at pos.
FileRead(file, pos, size) == SubSeq(file, pos + 1, Min(pos + size, Len(file)))

InitHash ==
    /\ hashing \in [Calls -> {[pc |-> "open", file |-> b, pos |-> 0,
                               absorbed |-> << >>] :
                                 b \in SeqsUpTo(Bytes, MaxBytes)}]
    /\ ChunkIdle
    /\ QueryIdle
    /\ StoreIdle

\* pdf_processor.py lines 326-327: one block is read and absorbed.
HashUpdate(c) ==
    /\ hashing[c].pc = "open"
    /\ \A b \in Calls : b < c => hashing[b].pc = "returned"
    /\ LET byte_block == FileRead(hashing[c].file, hashing[c].pos, BlockBytes)
       IN  /\ byte_block # << >>
           /\ hashing' = [hashing EXCEPT
                            ![c].pos = @ + Len(byte_block),
                            ![c].absorbed = @ \o byte_block]
    /\ UNCHANGED <<chunkVars, queryVars, storeVars>>

\* pdf_processor.py lines 326-328: the read returns b"", the loop ends and
\* the hex digest is returned.
HashDigest(c) ==
    /\ hashing[c].pc = "open"
    /\ \A b \in Calls : b < c => hashing[b].pc = "returned"
    /\ FileRead(hashing[c].file, hashing[c].pos, BlockBytes) = << >>
    /\ hashing' = [hashing EXCEPT
                     ![c] = [pc |-> "returned", file |-> hashing[c].file,
                             digest |-> sha256_hexdigest(hashing[c].absorbed)]]
    /\ UNCHANGED <<chunkVars, queryVars, storeVars>>

NextHash ==
    \/ \E c \in Calls : HashUpdate(c)
    \/ \E c \in Calls : HashDigest(c)

SpecHash == InitHash /\ [][NextHash]_vars

(***************************************************************************)
(* Claims about calculate_file_hash, checked under SpecHash.               *)
(***************************************************************************)

\* C20: calculate_file_hash returns a digest of 64 hexadecimal characters,
\* the same for the same bytes, and two calls return the same digest only
\* for the same bytes.
C20_HashDistinguishesContent ==
    (\A c \in Calls : hashing[c].pc = "returned") =>
        /\ \A c \in Calls :
               /\ Len(hashing[c].digest) = 64
               /\ \A i \in 1..64 :
                      \E k \in 1..16 : hashing[c].digest[i] = HexDigits[k]
        /\ (hashing[1].digest = hashing[2].digest)
               <=> (hashing[1].file = hashing[2].file)

C20_Witness ==
    /\ \A c \in Calls : hashing[c].pc = "returned"
    /\ Len(hashing[1].file) = MaxBytes
    /\ Len(hashing[2].file) = MaxBytes
    /\ hashing[1].file # hashing[2].file
    /\ hashing[1].file[1] = hashing[2].file[1]
    /\ hashing[1].digest # hashing[2].digest

(***************************************************************************)
(* Claims about retrieval, checked under SpecQuery.                        *)
(***************************************************************************)

\* C1: when the search returns no match and only_answer_if_sources is set,
\* answer_question returns the decline message with empty sources and the
\* generation provider is not called.
C1_NoSourcesShortCircuit ==
    (/\ q_out.op = "answer"
     /\ q_out.searched
     /\ q_out.matches = << >>
     /\ q_out.only_answer_if_sources) =>
        /\ q_out.result.response = DeclineMessage
        /\ q_out.result.sources = << >>
        /\ ~q_out.result.generated

\* C2: the document filter is a logical OR: the search returns a ranking of
\* the top_k best points among those whose document_id is in the filter.
C2_FilterIsDisjunctive ==
    (q_out.op = "search" /\ q_out.document_filter # {}) =>
        IsTopK(q_out.matches,
               {p \in index : p.document_id \in q_out.document_filter},
               q_out.qv, q_out.top_k)

\* C3: with a non-empty document filter every match returned by the search
\* has its document_id in the filter.
C3_FilterSound ==
    (q_out.op = "search" /\ q_out.document_filter # {}) =>
        \A i \in 1..Len(q_out.matches) :
            q_out.matches[i].document_id \in q_out.document_filter

C3_Witness ==
    /\ q_out.op = "search"
    /\ q_out.document_filter # {}
    /\ Len(q_out.matches) >= 2
    /\ \E p \in index : p.document_id \notin q_out.document_filter

ResultKeys ==
    {"response", "sources", "context_chunks", "response_time_ms", "tokens_used"}

\* C15: answer_question always returns a result holding response, sources,
\* context_chunks, response_time_ms and tokens_used; when the embedding of
\* the query, the search or the generation failed, the response is an
\* error text and the sources are empty.
C15_AnswerAlwaysReturned ==
    q_out.op = "answer" =>
        /\ ResultKeys \subseteq DOMAIN q_out.result
        /\ q_out.result.failure # "none" =>
               /\ q_out.result.response \in {GenerationError, PipelineError}
               /\ q_out.result.sources = << >>

C15_Witness ==
    /\ q_out.op = "answer"
    /\ q_out.searched
    /\ Len(q_out.matches) >= 2
    /\ q_out.result.failure = "generation"
    /\ q_out.result.response = GenerationError

IsBlockSegment(seg) == seg.kind \in {"document", "page", "content"}

\* The document, page and content segments of the matches, in order.
ExpectedBlocks(matches) ==
    [j \in 1..(3 * Len(matches)) |->
        LET point == matches[((j - 1) \div 3) + 1].point
        IN  CASE (j - 1) % 3 = 0 -> Seg("document", point.filename)
              [] (j - 1) % 3 = 1 -> Seg("page", point.page_number)
              [] OTHER -> Seg("content", point.content)]

\* C16: for a non-empty list of matches the prompt holds, for each match
\* and in the order of the list, 'Document: <filename>', 'Page: <page>' and
\* the content, and after all of them the query.
C16_PromptComposition ==
    (q_out.op = "answer" /\ q_out.searched /\ q_out.matches # << >>) =>
        LET prompt == q_out.result.prompt
            blocks == SelectSeq(prompt, IsBlockSegment)
            expected == ExpectedBlocks(q_out.matches)
        IN  /\ Len(blocks) = Len(expected)
            /\ \A j \in 1..Len(blocks) :
                   /\ blocks[j].kind = expected[j].kind
                   /\ blocks[j].value = expected[j].value
            /\ \E i \in 1..Len(prompt) :
                   /\ prompt[i].kind = "question"
                   /\ prompt[i].value = q_out.query
                   /\ \A k \in 1..Len(prompt) :
                          IsBlockSegment(prompt[k]) => k < i

C16_Witness ==
    /\ q_out.op = "answer"
    /\ q_out.searched
    /\ Len(q_out.matches) = 2
    /\ q_out.matches[1].point.id > q_out.matches[2].point.id
    /\ q_out.matches[1].point.document_id # q_out.matches[2].point.document_id
    /\ Len(q_out.result.prompt) > 6

\* C17: when generation succeeds the sources hold one entry per match, in
\* the order of the matches, each with the match's document id, file name,
\* page, ordinal, content and score, and the response is the generated
\* text.
C17_SourcesShaping ==
    (q_out.op = "answer" /\ q_out.result.failure = "none") =>
        /\ q_out.result.response \in GeneratedTexts
        /\ Len(q_out.result.sources) = Len(q_out.matches)
        /\ \A i \in 1..Len(q_out.matches) :
               q_out.result.sources[i] =
                   [document_id |-> q_out.matches[i].point.document_id,
                    document_name |-> q_out.matches[i].point.filename,
                    page_number |-> q_out.matches[i].point.page_number,
                    chunk_index |-> q_out.matches[i].point.chunk_index,
                    content |-> q_out.matches[i].point.content,
                    relevance_score |-> q_out.matches[i].score]

C17_Witness ==
    /\ q_out.op = "answer"
    /\ q_out.result.failure = "none"
    /\ Len(q_out.matches) = 2
    /\ Len(q_out.result.sources) = 2
    /\ q_out.matches[1].score > q_out.matches[2].score
    /\ q_out.result.sources[1].content # q_out.result.sources[2].content

(***************************************************************************)
(* Claims about the chat endpoint, checked under SpecChat.                 *)
(***************************************************************************)

\* C18: the limit passed to the search is in 1..20, and a request whose
\* top_k is outside 1..20 is rejected (422 for the validation failure, or
\* 404 when the session is unknown as well) with no search and no
\* generation.
C18_TopKRange ==
    q_out.op = "chat" =>
        /\ q_out.called => q_out.limit \in 1..MAX_TOP_K
        /\ q_out.request_top_k \notin 1..MAX_TOP_K =>
               /\ q_out.status \in {404, 422}
               /\ ~q_out.called
               /\ ~q_out.generated

(***************************************************************************)
(* Claims about the store, checked under Spec.                             *)
(***************************************************************************)
UniqueHash ==
    \A d1, d2 \in DOMAIN documents :
        documents[d1].content_hash = documents[d2].content_hash => d1 = d2

\* C8: an upload of bytes whose document already exists returns that
\* document's id with status already_exists, starts no ingestion run and
\* creates no document, chunk row or vector; there is one document with
\* the fingerprint.
C8_DedupOnUpload ==
    /\ []UniqueHash
    /\ [][\A r \in Reqs :
            (/\ up[r].pc = "hashed"
             /\ up'[r] # up[r]
             /\ \E d \in DOMAIN documents :
                   documents[d].content_hash = up[r].file_hash) =>
                /\ up'[r].pc = "done"
                /\ up'[r].resp.status = "already_exists"
                /\ up'[r].resp.id \in DOMAIN documents
                /\ up'[r].resp.id # up[r].file_id
                /\ documents[up'[r].resp.id].content_hash = up[r].file_hash
                /\ run[up[r].file_id].pc = "none"
                /\ UNCHANGED <<documents, chunk_rows, index, run>>]_vars

C8_Witness ==
    /\ next_id = 3
    /\ up[1].pc = "done"
    /\ up[1].resp = [status |-> "already_exists", id |-> 1]
    /\ DOMAIN documents = {1}
    /\ documents[1].processing_status = "completed"
    /\ run[2].pc = "none"
    /\ \A p \in index : p.document_id = 1
    /\ \A row \in chunk_rows : row.document_id = 1

\* C9: under every interleaving of two uploads of the same bytes no two
\* documents share a fingerprint, one ingestion run is started per document
\* created, and no upload is answered with an error.
C9_UploadIdempotent ==
    /\ UniqueHash
    /\ Cardinality({d \in FileIds : run[d].pc # "none"})
           = Cardinality(DOMAIN documents \cup DOMAIN deleted)
    /\ \A r \in Reqs :
           up[r].pc = "done" => up[r].resp.status \in {"uploaded", "already_exists"}

\* C10: once delete_document(D) has returned successfully there is no chunk
\* row of D, no vector whose key was in those rows, and no search returns a
\* match of D.  The claim is read for a document whose ingestion had ended
\* when the delete began.
C10_DeletionCascade ==
    \A d \in DOMAIN deleted :
      deleted[d].settled =>
        /\ \A row \in chunk_rows : row.document_id # d
        /\ \A p \in index : p.id \notin deleted[d].keys
        /\ \A qv \in Vectors, top_k \in 1..MaxTopK, document_filter \in SUBSET DocIds :
               \A res \in SearchSimilarChunks(index, qv, top_k, document_filter) :
                   \A i \in 1..Len(res) : res[i].document_id # d

\* The status changes of process_pdf.
StatusSteps ==
    {<<"pending", "processing">>, <<"processing", "completed">>,
     <<"processing", "failed">>}

C12_FailureHandled ==
    \A d \in FileIds :
        /\ run[d].pc # "raised"
        /\ (run[d].pc = "returned" /\ ~run[d].result /\ d \in DOMAIN documents) =>
               /\ documents[d].processing_status = "failed"
               /\ documents[d].error_message

NoDeletion == del.pc = "idle" /\ deleted = << >>

\* C13: in every ingestion run the batched upsert completes before the
\* chunk rows are committed: each row is committed when its vector is in
\* the index, and no state reached without a deletion, a crash between the
\* two steps included, holds a row whose vector is not in the index.
C13_IndexBeforeRows ==
    /\ [](NoDeletion =>
            \A row \in chunk_rows : row.vector_id \in {p.id : p \in index})
    /\ [][\A row \in chunk_rows' \ chunk_rows :
              row.vector_id \in {p.id : p \in index}]_vars

C13_Witness ==
    /\ NoDeletion
    /\ run[1].pc = "crashed"
    /\ documents[1].processing_status = "processing"
    /\ \E p \in index : p.document_id = 1
    /\ \A row \in chunk_rows : row.document_id # 1
    /\ run[2].pc = "returned"
    /\ \E row \in chunk_rows : row.document_id = 2

\* C14: the two-page document with a page of 1500 and a page of 400
\* characters, ingested with chunk size 1000 and overlap 200, completes
\* with chunk_count = 3: ordinals 0 and 1 on page 1, ordinal 2 on page 2.
C14_EndToEndScenario ==
    \A d \in DOMAIN documents :
        documents[d].processing_status = "completed" =>
            /\ documents[d].chunk_count = 3
            /\ {<<row.chunk_index, row.page_number>> :
                    row \in {x \in chunk_rows : x.document_id = d}}
                 = {<<0, 1>>, <<1, 1>>, <<2, 2>>}

\* C19: a failed vector delete for one key neither ends the loop over the
\* remaining keys nor keeps delete_document from removing the document row
\* and its chunk rows: when the call has returned, every key was attempted
\* and the rows are gone.
C19_BestEffortDeletion ==
    \A d \in DOMAIN deleted :
        /\ deleted[d].attempted = deleted[d].keys
        /\ d \notin DOMAIN documents
        /\ \A row \in chunk_rows : row.document_id # d

C19_Witness ==
    \E d \in DOMAIN deleted :
        /\ Cardinality(deleted[d].keys) >= 2
        /\ deleted[d].failed # {}
        /\ deleted[d].failed # deleted[d].keys
        /\ deleted[d].attempted = deleted[d].keys
        /\ \E p \in index : p.id \in deleted[d].failed
        /\ d \notin DOMAIN documents

(***************************************************************************)
(* Claims about chunk_text, checked under SpecChunk.                       *)
(***************************************************************************)
ValidConfig == 0 < c_overlap /\ c_overlap < c_size

\* C4: chunk_text terminates for every text when 0 < overlap < chunk_size.
\* The loop is deterministic and its only loop-carried state is start, so it
\* terminates exactly when no value of start recurs at the loop head.
C4_ChunkingTerminates ==
    (c_pc = "loop" /\ ValidConfig) => c_start \notin c_seen

\* Position i (0-based) lies in the source window of some emitted chunk.
Covered(i) ==
    \E k \in 1..Len(c_windows) : c_windows[k][1] <= i /\ i < c_windows[k][2]

\* C5: for a text longer than chunk_size the windows of the emitted chunks
\* cover every position of the text: no character, other than whitespace
\* removed by trimming, is skipped.
C5_ChunkingCoverage ==
    (c_pc = "done" /\ ValidConfig /\ Len(c_text) > c_size) =>
        \A i \in 0..(Len(c_text) - 1) :
            Covered(i) \/ c_text[i + 1] \in Whitespace

\* C6: a text with len(text) <= chunk_size is returned as the one-element
\* list holding the text unmodified.
C6_ChunkShortCircuit ==
    (c_pc = "done" /\ Len(c_text) <= c_size) => c_chunks = <<c_text>>

C6_Witness ==
    /\ c_pc = "done"
    /\ Len(c_text) = c_arg[1]
    /\ Len(c_text) >= 2
    /\ Head(c_text) \in Whitespace
    /\ c_chunks = <<c_text>>

\* C7: every emitted chunk is at most chunk_size characters long, hence at
\* most chunk_size + overlap.
C7_ChunkLengthBound ==
    \A k \in 1..Len(c_chunks) :
        /\ Len(c_chunks[k]) <= c_size
        /\ Len(c_chunks[k]) <= c_size + c_overlap

C7_Witness ==
    /\ c_pc = "done"
    /\ ValidConfig
    /\ Len(c_chunks) >= 3
    /\ \E k \in 1..Len(c_chunks) : Len(c_chunks[k]) = c_size
    /\ \E k \in 1..Len(c_chunks) : Len(c_chunks[k]) < c_size


\* C21: in every iteration of the scan the next window start is strictly
\* greater than the current one, for every text and every chunk_size and
\* overlap that chunk_text runs with (none is rejected or clamped).
C21_StrictForwardProgress ==
    [][(c_pc = "loop" /\ c_start < Len(c_text)) => c_start' > c_start]_vars


(***************************************************************************)
(* Claims about the sentence boundaries of chunk_text, checked under       *)
(* SpecSnap.                                                               *)
(***************************************************************************)
\* The positions i of window (1-based) where the k-th mark begins.
MarksIn(window, k) ==
    {i \in 1..(Len(window) - 1) :
        window[i] = Punctuation[k][1] /\ window[i + 1] = Punctuation[k][2]}

Last(S) == CHOOSE i \in S : \A j \in S : j <= i

\* Where the chunk that starts at lo ends: just after the last '. ' of the
\* window, else the last '! ', else the last '? ', else the raw boundary.
SnappedEnd(text, lo, chunk_size) ==
    LET boundary == lo + chunk_size
        window == SubSeq(text, lo + 1, Min(boundary, Len(text)))
    IN  IF boundary >= Len(text) THEN Len(text)
        ELSE IF MarksIn(window, 1) # {} THEN lo + Last(MarksIn(window, 1))
        ELSE IF MarksIn(window, 2) # {} THEN lo + Last(MarksIn(window, 2))
        ELSE IF MarksIn(window, 3) # {} THEN lo + Last(MarksIn(window, 3))
        ELSE boundary

\* C22: when the boundary start + chunk_size lies strictly inside the text
\* and the window holds '. ', '! ' or '? ', the chunk ends just after the
\* mark chosen by priority (the last '. ', else the last '! ', else the last
\* '? '); otherwise the chunk ends at the raw boundary.
C22_SentenceSnapping ==
    \A k \in 1..Len(c_windows) :
        c_windows[k][2] = SnappedEnd(c_text, c_windows[k][1], c_size)

C22_Witness ==
    /\ Len(c_windows) >= 1
    /\ c_windows[1][1] = 0
    /\ c_size < Len(c_text)
    /\ MarksIn(SubSeq(c_text, 1, c_size), 1) # {}
    /\ MarksIn(SubSeq(c_text, 1, c_size), 2) # {}
    /\ Last(MarksIn(SubSeq(c_text, 1, c_size), 1))
           < Last(MarksIn(SubSeq(c_text, 1, c_size), 2))
    /\ c_windows[1][2] = Last(MarksIn(SubSeq(c_text, 1, c_size), 1))


(***************************************************************************)
(* Further claims about chunk_text, checked under SpecChunk.               *)
(***************************************************************************)
IsTrimmed(chunk) ==
    /\ chunk # << >>
    /\ Head(chunk) \notin Whitespace
    /\ chunk[Len(chunk)] \notin Whitespace

\* C23, as stated: every chunk returned by chunk_text, for any text (texts
\* with len(text) <= chunk_size included), is non-empty and has no leading
\* or trailing whitespace.
C23_EveryChunkTrimmed ==
    c_pc = "done" => \A k \in 1..Len(c_chunks) : IsTrimmed(c_chunks[k])

\* C23, amended: every chunk emitted by the scan of a text longer than
\* chunk_size is non-empty and has no leading or trailing whitespace; a
\* text with len(text) <= chunk_size is returned as it is, trimmed or not.
C23_ScannedChunksTrimmed ==
    /\ Len(c_text) > c_size =>
           \A k \in 1..Len(c_chunks) : IsTrimmed(c_chunks[k])
    /\ (c_pc = "done" /\ Len(c_text) <= c_size) =>
           (IsTrimmed(c_chunks[1]) <=> IsTrimmed(c_text))

C23_Witness ==
    /\ c_pc = "done"
    /\ Len(c_text) > c_size
    /\ Len(c_chunks) >= 2
    /\ \E k \in 1..Len(c_chunks) :
           /\ c_text[c_windows[k][1] + 1] \in Whitespace
           /\ c_text[c_windows[k][2]] \in Whitespace
           /\ Len(c_chunks[k]) = c_windows[k][2] - c_windows[k][1] - 2


\* The call has run to its return, or to the last iteration the model
\* follows.
ChunkRunOver == c_pc = "done" \/ (c_pc = "loop" /\ c_iter = MaxIter)

\* C30: chunk_text called with overlap = 0 or omitted runs with
\* CHUNK_OVERLAP, and with chunk_size = 0 or omitted runs with CHUNK_SIZE:
\* chunk_text(text, size, 0) gives what chunk_text(text, size, CHUNK_OVERLAP)
\* gives, and never a zero-overlap chunking.
C30_FalsyParametersDefault ==
    /\ (c_pc # "idle" /\ c_arg[1] = 0) => c_size = CHUNK_SIZE
    /\ (c_pc # "idle" /\ c_arg[2] = 0) => c_overlap = CHUNK_OVERLAP
    /\ (ChunkRunOver /\ c_arg[2] = 0) =>
           c_chunks = chunk_text(c_text, c_arg[1], CHUNK_OVERLAP)
    /\ (ChunkRunOver /\ c_arg[1] = 0) =>
           c_chunks = chunk_text(c_text, CHUNK_SIZE, c_arg[2])

C30_Witness ==
    /\ c_arg[2] = 0
    /\ c_arg[1] > 0
    /\ c_iter = 1
    /\ Len(c_windows) = 1
    /\ c_windows[1][2] < Len(c_text)
    /\ c_start = c_windows[1][2] - CHUNK_OVERLAP


(***************************************************************************)
(* Claims about the chunks of a completed ingestion, checked under         *)
(* SpecScenario.                                                           *)
(***************************************************************************)
RowsOf(d) == {row \in chunk_rows : row.document_id = d}

\* The file of document d: the content that its content_hash names.
StoredFile(d) == documents[d].content_hash[2]
PointsOfDocument(d) == {p \in index : p.document_id = d}

\* The number of points of document d on the pages before page_number.
PointsBefore(d, page_number) ==
    Cardinality({p \in PointsOfDocument(d) : p.page_number < page_number})

\* C24: in a completed ingestion of n chunks the ordinals are exactly
\* 0..n-1, assigned page after page and, inside a page, in the order of
\* its chunks, without starting again at a page boundary; the vector keys
\* are pairwise distinct; chunk_count, the number of chunk rows and the
\* number of points upserted are all n.
C24_OrdinalsAndCount ==
    (run[1].pc = "returned" /\ documents[1].processing_status = "completed") =>
        LET n == documents[1].chunk_count
            pages == extract_text_from_pdf(StoredFile(1))
        IN  /\ Cardinality(RowsOf(1)) = n
            /\ Cardinality(PointsOfDocument(1)) = n
            /\ {row.chunk_index : row \in RowsOf(1)} = 0..(n - 1)
            /\ {p.chunk_index : p \in PointsOfDocument(1)} = 0..(n - 1)
            /\ Cardinality({row.vector_id : row \in RowsOf(1)}) = n
            /\ {p.id : p \in PointsOfDocument(1)}
                   = {row.vector_id : row \in RowsOf(1)}
            /\ \A p \in PointsOfDocument(1) :
                   \E k \in 1..Len(pages) :
                       /\ pages[k].page_number = p.page_number
                       /\ LET i == p.chunk_index
                                       - PointsBefore(1, p.page_number) + 1
                              page_chunks == ChunkLoop(pages[k].content,
                                                 CHUNK_SIZE, CHUNK_OVERLAP,
                                                 0, << >>, MaxIter)
                          IN  /\ i \in 1..Len(page_chunks)
                              /\ p.content = page_chunks[i]
            /\ \A row \in RowsOf(1) :
                   \E p \in PointsOfDocument(1) :
                       /\ p.id = row.vector_id
                       /\ p.chunk_index = row.chunk_index
                       /\ p.page_number = row.page_number

C24_Witness ==
    /\ run[1].pc = "returned"
    /\ documents[1].processing_status = "completed"
    /\ documents[1].chunk_count = 4
    /\ \E row \in RowsOf(1) : row.page_number = 1 /\ row.chunk_index = 2
    /\ \E row \in RowsOf(1) : row.page_number = 2 /\ row.chunk_index = 3


(***************************************************************************)
(* Further claims about the store, checked under Spec.                     *)
(***************************************************************************)

\* C25: a crash at any point of an ingestion run leaves the relational
\* store in the state before the run (document pending, no chunk rows) or
\* in a terminal state (completed or failed, with its final rows); chunk
\* rows never stand beside a status that is not terminal.
C25_TransactionalRun ==
    \A d \in DOMAIN documents :
        /\ run[d].pc = "crashed" =>
               \/ /\ documents[d].processing_status = "pending"
                  /\ RowsOf(d) = {}
               \/ documents[d].processing_status \in {"completed", "failed"}
        /\ RowsOf(d) # {} =>
               documents[d].processing_status \in {"completed", "failed"}


\* No ingestion run and no deletion of document d is under way.
AtRest(d) ==
    /\ run[d].pc \in {"none", "returned", "raised", "crashed"}
    /\ del.pc = "deleting" => del.document_id # d
    /\ d \in DOMAIN documents =>
           documents[d].processing_status \in {"completed", "failed"}
    /\ d \in DOMAIN documents \/ d \in DOMAIN deleted

\* C26: whenever no ingestion or deletion of a document is under way (it is
\* completed, failed or deleted), the index vectors whose document_id is the
\* document's are, through vector_id, exactly the vectors of its chunk rows:
\* no rows without vectors and no vectors without rows.
C26_RowVectorConsistency ==
    \A d \in FileIds :
        AtRest(d) =>
            {p.id : p \in PointsOfDocument(d)}
                = {row.vector_id : row \in RowsOf(d)}


\* C29: when delete_document(D) runs while D's ingestion is in flight
\* (after its processing commit and before its final commit), then once
\* both have finished the index holds no vector whose document_id is D and
\* the relational store holds no chunk row of D.
C29_DeleteDuringIngestion ==
    \A d \in DOMAIN deleted :
        (/\ deleted[d].during \in {"processing", "upserted"}
         /\ run[d].pc \in {"returned", "raised"}
         /\ d \notin DOMAIN documents) =>
            /\ PointsOfDocument(d) = {}
            /\ RowsOf(d) = {}


(***************************************************************************)
(* Claims about the progress of ingestion, checked under SpecLive.         *)
(***************************************************************************)

\* C27: a document accepted by upload, and not deleted, eventually reaches
\* completed or failed: none stays pending or processing for ever.
C27_IngestionLiveness ==
    (documents[1].processing_status \in {"pending", "processing"})
        ~> (documents[1].processing_status \in {"completed", "failed"})


(***************************************************************************)
(* Further claims about retrieval, checked under SpecQuery.                *)
(***************************************************************************)

\* C28: the time reported in the result of answer_question is measured
\* from before the embedding of the query until after the last step that
\* ran, on every path: it is at least the time the search took (also when
\* the embedding or the search failed), and more than that when the
\* generation provider was called.
C28_TimingCoversPipeline ==
    q_out.op = "answer" =>
        /\ q_out.result.response_time_ms >= q_out.search_time
        /\ q_out.result.generated =>
               q_out.result.response_time_ms > q_out.search_time

=============================================================================
